---- MODULE Spec2Model ----
(***************************************************************************)
(* The ray-tracing web worker of blobverb (raytracing-worker.js) as a      *)
(* state machine: the module-level worker state, the onmessage handler,    *)
(* runSimulation with its batched processBatch closure, and the radiosity  *)
(* pulse synthesis.                                                        *)
(*                                                                         *)
(* Numbers.  Distances and times are integers (one length unit takes one   *)
(* tick at speedOfSound = 1).  Amplitudes are fixed point: AmpOne stands   *)
(* for 1.0.  Absorption coefficients and the scattering coefficient are    *)
(* given in halves (0, 1, 2 stand for 0, 0.5, 1.0).  Energies are          *)
(* amplitude squared, so EnergyOne = AmpOne * AmpOne stands for 1.0.       *)
(* Math.random() is abstracted to the half of [0,1) its value falls in:    *)
(* 0 for u < 0.5, 1 for u >= 0.5.  The wall-clock fields of the messages   *)
(* (raysPerSecond, avgRaysPerSecond) are not modelled.                     *)
(*                                                                         *)
(* The scene is a corridor along x with the source at x = 0: walls at      *)
(* -half and +half, the receiver sphere an interval of the lane y = 0.     *)
(* A ray has a direction along x, a lane (0: the receiver's, 1: beside     *)
(* it) and a height bit z (an open room has no +x wall for z = 1).         *)
(***************************************************************************)
EXTENDS Integers, Sequences, FiniteSets, TLC

\* ---------------------------------------------------------------- bounds
\* commands the worker handles in one behaviour
MaxCommands == 3
\* calls of processBatch per simulation (a simulation whose batchSize is not
\* positive never ends)
MaxBatches == 3

\* ---------------------------------------------------------------- helpers
Max(a, b) == IF a >= b THEN a ELSE b
Min(a, b) == IF a <= b THEN a ELSE b
Abs(a) == IF a < 0 THEN -a ELSE a

\* Math.ceil(a / b) for b > 0
CeilDiv(a, b) == -((-a) \div b)

\* Math.floor(Math.sqrt(n)), n >= 0
ISqrt(n) == CHOOSE r \in 0..(n + 1) : r * r <= n /\ (r + 1) * (r + 1) > n

\* Array.prototype.sort on numeric keys: the keys of a set in ascending order
RECURSIVE SortedKeys(_)
SortedKeys(S) ==
    IF S = {} THEN << >>
    ELSE LET m == CHOOSE x \in S : \A y \in S : x <= y
         IN  <<m>> \o SortedKeys(S \ {m})

\* stable insertion of an arrival into a list sorted by time
RECURSIVE InsertByTime(_, _)
InsertByTime(sorted, a) ==
    IF sorted = << >> THEN <<a>>
    ELSE IF Head(sorted).time <= a.time
         THEN <<Head(sorted)>> \o InsertByTime(Tail(sorted), a)
         ELSE <<a>> \o sorted

\* Array.prototype.sort((a, b) => a.time - b.time): stable, ascending by time
RECURSIVE SortByTime(_)
SortByTime(list) ==
    IF list = << >> THEN << >>
    ELSE InsertByTime(SortByTime(SubSeq(list, 1, Len(list) - 1)), list[Len(list)])

IsSortedByTime(list) ==
    \A i \in 1..(Len(list) - 1) : list[i].time <= list[i + 1].time

\* ---------------------------------------------------------------- fixed point
AmpOne == 8
EnergyOne == AmpOne * AmpOne

\* the key of the single band when useFreqDependent is false
Broadband == 0

\* ---------------------------------------------------------------- random numbers
\* A generator is a 6-bit linear congruential state; its output is the half
\* of [0,1) the next number falls in.
RngNext(s) == (s * 13 + 7) % 64
RngOut(s) == (s \div 8) % 2

\* seedrandom(seed): the initial state a seed string stands for
SeedState(seed) == IF seed = "a" THEN 17 ELSE IF seed = "b" THEN 44 ELSE 3

\* the states the platform's unseeded Math.random may start in
NativeStates == {5, 30}

\* ---------------------------------------------------------------- state
VARIABLES
    raycaster,          \* module-level raycaster was created by initWorker
    roomMesh,           \* module-level roomMesh (present = FALSE: undefined)
    emitterMesh,        \* module-level emitterMesh (present = FALSE: undefined)
    emitterRadius,      \* module-level emitterRadius
    emitterPosition,    \* module-level emitterPosition (its x coordinate)
    emitterPositionVec, \* _emitterPositionVec
    mathRandom,         \* the generator Math.random is: 0 native, s the one seeded by simulation s
    rng,                \* the state of every generator
    sims,               \* the closures runSimulation created, in order of creation
    timers,             \* pending setTimeout(processBatch, 0) callbacks, as simulation numbers
    closing,            \* self.close() was called
    outbox,             \* the messages posted to the main thread, in order
    warned,             \* console.warn('Unknown message type') was called
    commands,           \* number of commands handled so far
    terminated,         \* a terminate command was handled
    dropped,            \* types of the messages that arrived after self.close()
    audio,              \* main thread: the last call of an audio function, its input and result
    main                \* main thread: state.isSimulating, state.workerGeometryReady,
                        \* workerInstance, the timers and the two message queues

vars == << raycaster, roomMesh, emitterMesh, emitterRadius, emitterPosition,
           emitterPositionVec, mathRandom, rng, sims, timers, closing, outbox,
           warned, commands, terminated, dropped, audio, main >>

workerState == << raycaster, roomMesh, emitterMesh, emitterRadius, emitterPosition,
                  emitterPositionVec, mathRandom, rng, sims, timers, closing >>

\* ---------------------------------------------------------------- scene
NoRoomMesh == [present |-> FALSE, half |-> 0, open |-> FALSE, boundsTree |-> FALSE]
NoEmitterMesh == [present |-> FALSE, radius |-> 0, pos |-> 0, boundsTree |-> FALSE]

\* ray.intersectObject(emitterMesh, false, receiverIntersects): the nearest
\* front face of the sphere along the ray; none from inside the sphere or in
\* the other lane.  A ray that starts on the surface (only the unreflected
\* ray from the source can) meets it at distance 0.
ReceiverHit(em, x, dir, lane, bounce) ==
    LET lo == em.pos - em.radius
        hi == em.pos + em.radius
    IN  IF lane # 0 THEN [hit |-> FALSE, distance |-> 0]
        ELSE IF dir = 1 /\ x < lo THEN [hit |-> TRUE, distance |-> lo - x]
        ELSE IF dir = -1 /\ x > hi THEN [hit |-> TRUE, distance |-> x - hi]
        ELSE IF bounce = 0 /\ ((dir = 1 /\ x = lo) \/ (dir = -1 /\ x = hi))
             THEN [hit |-> TRUE, distance |-> 0]
        ELSE [hit |-> FALSE, distance |-> 0]

\* ray.intersectObject(roomMesh, false, roomIntersects): the wall ahead
RoomHit(room, x, dir, z) ==
    LET d == room.half - dir * x
    IN  IF d <= 0 \/ (room.open /\ z = 1 /\ dir = 1)
        THEN [hit |-> FALSE, distance |-> 0, point |-> x]
        ELSE [hit |-> TRUE, distance |-> d, point |-> dir * room.half]

\* ---------------------------------------------------------------- runSimulation: set-up
\* the defaults of rrConfig, in the units of the model
DefaultRRConfig ==
    [enabled |-> TRUE, scatteringCoeff |-> 1, histogramResolution |-> 2,
     maxTime |-> 12, hybridBounceThreshold |-> 3, poissonDensity |-> 12,
     minEnergyThreshold |-> 0, diffuseGain |-> 1]

\* { ...defaults, ...rrOverrides } followed by the Math.max clamps
ClampedRRConfig(rrOverrides) ==
    LET m == [k \in DOMAIN DefaultRRConfig |->
                 IF k \in DOMAIN rrOverrides THEN rrOverrides[k] ELSE DefaultRRConfig[k]]
        res == Max(1, m.histogramResolution)
    IN  [m EXCEPT !.histogramResolution = res,
                  !.maxTime = Max(res, m.maxTime),
                  !.hybridBounceThreshold = Max(0, m.hybridBounceThreshold),
                  !.poissonDensity = Max(1, m.poissonDensity),
                  !.minEnergyThreshold = Max(0, m.minEnergyThreshold)]

\* THREE.MathUtils.clamp(rrConfig.scatteringCoeff ?? 0, 0, 1), in halves
ScatterWeight(rrConfig) == Max(0, Min(2, rrConfig.scatteringCoeff))

\* freqBands as a sequence; the single band when useFreqDependent is false
BandSeq(params) ==
    IF params.useFreqDependent THEN SortedKeys(DOMAIN params.absorptionCoeffs)
    ELSE <<Broadband>>

BandSet(params) == {BandSeq(params)[i] : i \in 1..Len(BandSeq(params))}

\* absorptionCoeffs[freq] ?? 0, wallAbsorption ?? 0, in halves
Absorption(params, band) ==
    IF params.useFreqDependent THEN params.absorptionCoeffs[band]
    ELSE params.wallAbsorption

\* the number of bins whether or not the radiosity tail is enabled
HistogramBinsAlways(rrConfig) == CeilDiv(rrConfig.maxTime, rrConfig.histogramResolution)

HistogramBins(rrConfig) ==
    IF rrConfig.enabled THEN CeilDiv(rrConfig.maxTime, rrConfig.histogramResolution) ELSE 0

\* the module-level state processBatch reads
World == [roomMesh |-> roomMesh, emitterMesh |-> emitterMesh,
          emitterRadius |-> emitterRadius, emitterPositionVec |-> emitterPositionVec]

\* the closure of one runSimulation call, before its first processBatch; world,
\* fixed, batches, wallHits and status record its history: the geometry it
\* started with, whether every batch so far saw that geometry, the calls of
\* processBatch, the most wall hits one of its rays made, and how it ended
NewSimulation(params, random) ==
    LET rr == ClampedRRConfig(params.rrConfig)
        bins == HistogramBins(rr)
    IN  [params |-> params,
         rrConfig |-> rr,
         restoreRandom |-> random,
         arrivals |-> [b \in BandSet(params) |-> << >>],
         histogramBins |-> bins,
         rrHistograms |-> [b \in BandSet(params) |-> [i \in 1..bins |-> 0]],
         rrContributionCount |-> 0,
         processedRays |-> 0,
         wallHits |-> 0,
         batches |-> 0,
         world |-> World,
         fixed |-> TRUE,
         status |-> "running"]

\* ---------------------------------------------------------------- processBatch: one ray
\* amplitudes[freq] *= (1.0 - absorption), for every band
Attenuate(params, amplitudes) ==
    [b \in DOMAIN amplitudes |-> (amplitudes[b] * (2 - Absorption(params, b))) \div 2]

\* only the lowest band's list gets the arrival
PushToLowestBand(arrivals, arrivalTime, amplitudes, i, bounce) ==
    [b \in DOMAIN arrivals |->
        IF \A c \in DOMAIN arrivals : b <= c
        THEN Append(arrivals[b], [time |-> arrivalTime, amplitude |-> amplitudes[b],
                                  late |-> FALSE, ray |-> i, bounce |-> bounce])
        ELSE arrivals[b]]

\* every band's list gets { time: arrivalTime, amplitude: amplitudes[band] }.
\* The fields late, ray and bounce are not part of the pushed object: they
\* record that the arrival is an early one, the index i of its ray and the
\* iteration of the bounce loop that pushed it (the wall hits before it).
PushArrival(arrivals, arrivalTime, amplitudes, i, bounce) ==
    [b \in DOMAIN arrivals |->
        Append(arrivals[b], [time |-> arrivalTime, amplitude |-> amplitudes[b],
                             late |-> FALSE, ray |-> i, bounce |-> bounce])]

\* amp * amp * diffuseGain * invDistanceTerm * Math.max(scatterWeight, 1e-3);
\* the unit of energy absorbs the constant factors
DiffuseEnergy(amp, rrConfig, distanceToReceiver) ==
    (amp * amp * rrConfig.diffuseGain * Max(ScatterWeight(rrConfig), 1))
        \div (distanceToReceiver * distanceToReceiver)

\* no test of the bin index
BinUnguarded(binIndex, histogramBins) == TRUE

\* if (binIndex < histogramBins)
BinInRange(binIndex, histogramBins) == binIndex < histogramBins

\* the radiosity contribution of one wall hit: the histograms and the count after it
Contribute(sim, w, bounce, point, totalDistance, amplitudes, hist, count) ==
    LET rr == sim.rrConfig
        dist == Max(Abs(point - w.emitterPositionVec), Max(w.emitterRadius \div 2, 1))
        timeToReceiver == (totalDistance + dist) \div sim.params.speedOfSound
        binIndex == timeToReceiver \div rr.histogramResolution
        adds(b) == /\ amplitudes[b] > 0
                   /\ DiffuseEnergy(amplitudes[b], rr, dist) > rr.minEnergyThreshold
        n == Cardinality({b \in DOMAIN amplitudes : adds(b)})
    IN  IF /\ rr.enabled
           /\ bounce >= rr.hybridBounceThreshold
           /\ sim.histogramBins > 0
           /\ timeToReceiver <= rr.maxTime
           /\ BinInRange(binIndex, sim.histogramBins)
        THEN [hist |-> [b \in DOMAIN hist |->
                          IF adds(b)
                          THEN [hist[b] EXCEPT ![binIndex + 1] =
                                   @ + DiffuseEnergy(amplitudes[b], rr, dist)]
                          ELSE hist[b]],
              count |-> count + n]
        ELSE [hist |-> hist, count |-> count]

\* the bounce loop of one ray, from iteration `bounce` on.
\* ray: i (its index), x, dir, lane, z, totalDistance, amplitudes.
\* acc: arrivals, hist, count, s (generator state), wallHits, thrown.
RECURSIVE BounceLoop(_, _, _, _, _)
BounceLoop(sim, w, bounce, ray, acc) ==
    IF bounce >= sim.params.maxBounces THEN acc
    ELSE IF ~w.emitterMesh.present \/ ~w.roomMesh.present
    THEN [acc EXCEPT !.thrown = TRUE]   \* intersectObject(undefined): TypeError
    ELSE
    LET recv == ReceiverHit(w.emitterMesh, ray.x, ray.dir, ray.lane, bounce)
        room == RoomHit(w.roomMesh, ray.x, ray.dir, ray.z)
        first == recv.hit /\ (~room.hit \/ recv.distance < room.distance)
    IN  IF first /\ recv.distance > 0
        THEN [acc EXCEPT !.arrivals =
                 PushArrival(@, (ray.totalDistance + recv.distance)
                                    \div sim.params.speedOfSound, ray.amplitudes,
                             ray.i, bounce)]
        ELSE IF ~room.hit THEN acc
        ELSE
        LET total == ray.totalDistance + room.distance
            amps == Attenuate(sim.params, ray.amplitudes)
            c == Contribute(sim, w, bounce, room.point, total, amps, acc.hist, acc.count)
            sw == ScatterWeight(sim.rrConfig)
            \* randomHemisphereDirection draws u1 and u2 only when scatterWeight > 0
            u1 == RngOut(acc.s)
            u2 == RngOut(RngNext(acc.s))
            s2 == IF sw > 0 THEN RngNext(RngNext(acc.s)) ELSE acc.s
            next == [i |-> ray.i,
                     x |-> room.point,
                     dir |-> -ray.dir,
                     lane |-> IF sw > 0 THEN u1 ELSE ray.lane,
                     z |-> IF sw = 2 THEN u2 ELSE ray.z,
                     totalDistance |-> total,
                     amplitudes |-> amps]
        IN  BounceLoop(sim, w, bounce + 1, next,
                       [acc EXCEPT !.hist = c.hist, !.count = c.count, !.s = s2,
                                   !.wallHits = Max(@, bounce + 1)])

\* one iteration of the ray loop: three draws for the direction, then the bounces
TraceRay(sim, w, i, acc) ==
    LET s1 == RngNext(acc.s)
        s2 == RngNext(s1)
        ray == [i |-> i,
                x |-> 0,
                dir |-> IF RngOut(acc.s) = 0 THEN -1 ELSE 1,
                lane |-> RngOut(s1),
                z |-> RngOut(s2),
                totalDistance |-> 0,
                amplitudes |-> [b \in BandSet(sim.params) |-> AmpOne]]
    IN  BounceLoop(sim, w, 0, ray, [acc EXCEPT !.s = RngNext(s2)])

\* for (let i = processedRays; i < endRay; i++): stops at the first throw
RECURSIVE RayLoop(_, _, _, _, _)
RayLoop(sim, w, i, endRay, acc) ==
    IF i >= endRay \/ acc.thrown THEN acc
    ELSE RayLoop(sim, w, i + 1, endRay, TraceRay(sim, w, i, acc))

\* ---------------------------------------------------------------- radiosity tail
\* the do-while of samplePoisson in the log domain: p > L  iff  -ln p < lambda,
\* a draw from the lower half of [0,1) adding twice what one from the upper half adds
RECURSIVE PoissonLoop(_, _, _, _)
PoissonLoop(lambda, k, sum, s) ==
    LET sum2 == sum + (IF RngOut(s) = 0 THEN 2 ELSE 1)
    IN  IF sum2 * EnergyOne < lambda
        THEN PoissonLoop(lambda, k + 1, sum2, RngNext(s))
        ELSE [k |-> k, s |-> RngNext(s)]

samplePoisson(lambda, s) ==
    IF lambda <= 0 THEN [k |-> 0, s |-> s] ELSE PoissonLoop(lambda, 0, 0, s)

\* Math.random() * binSize: a draw from the lower half gives the start of the
\* bin, one from the upper half the last tick before the next bin
Jitter(u, binSize) == IF u = 0 THEN 0 ELSE binSize - 1

\* one pulse of a bin: { time: baseTime + timeJitter, amplitude: amplitude * sign },
\* the jitter drawn first, the sign second; the field late is not part of the
\* pushed object: it records that the arrival is a synthesized one
Pulse(amplitude, baseTime, binSize, s) ==
    [time |-> baseTime + Jitter(RngOut(s), binSize),
     amplitude |-> amplitude * (IF RngOut(RngNext(s)) = 0 THEN -1 ELSE 1),
     late |-> TRUE]

\* the inner loop of synthesizeRadiosityPulses: pulses j .. pulseCount-1 of a
\* bin, pushed to out.pulses with the generator in state out.s
RECURSIVE BinPulses(_, _, _, _, _, _)
BinPulses(j, pulseCount, amplitude, baseTime, binSize, out) ==
    IF j >= pulseCount THEN out
    ELSE BinPulses(j + 1, pulseCount, amplitude, baseTime, binSize,
                   [pulses |-> Append(out.pulses, Pulse(amplitude, baseTime, binSize, out.s)),
                    s |-> RngNext(RngNext(out.s))])

\* the Poisson sample itself as the number of pulses
PulseCountUnfloored(k) == k

\* const pulseCount = Math.max(1, samplePoisson(lambda))
PulseCount(k) == Max(1, k)

\* the pulses of one bin with energy above the threshold, given the Poisson sample
BinOfEnergy(energy, baseTime, binSize, sample, pulses) ==
    BinPulses(0, PulseCount(sample.k), ISqrt(energy \div PulseCount(sample.k)),
              baseTime, binSize, [pulses |-> pulses, s |-> sample.s])

\* synthesizeRadiosityPulses, from bin i on (histogram[i + 1] is bin i), the
\* pulses so far in out.pulses and the generator in state out.s
RECURSIVE synthesizeRadiosityPulses(_, _, _, _, _, _)
synthesizeRadiosityPulses(histogram, binSize, poissonDensity, minEnergy, i, out) ==
    IF i >= Len(histogram) THEN out
    ELSE IF histogram[i + 1] <= minEnergy
    THEN synthesizeRadiosityPulses(histogram, binSize, poissonDensity, minEnergy, i + 1, out)
    ELSE synthesizeRadiosityPulses(histogram, binSize, poissonDensity, minEnergy, i + 1,
             BinOfEnergy(histogram[i + 1], i * binSize, binSize,
                         samplePoisson(Max(histogram[i + 1] * poissonDensity, 0), out.s),
                         out.pulses))

\* the pulses pushed and left out of lateArrivalCount
PushPulsesUncounted(out, band, syn) ==
    [arrivals |-> [out.arrivals EXCEPT ![band] = @ \o syn.pulses],
     late |-> out.late,
     s |-> syn.s]

\* arrivalsByBand[freq].push(...latePulses); lateArrivalCount += latePulses.length
PushPulses(out, band, syn) ==
    [arrivals |-> [out.arrivals EXCEPT ![band] = @ \o syn.pulses],
     late |-> out.late + Len(syn.pulses),
     s |-> syn.s]

\* the synthesis loop over freqBands[f..] (or the single band): each band's
\* list with its pulses appended, the number of pulses, the generator state
RECURSIVE SynthesizeBands(_, _, _, _)
SynthesizeBands(sim, bands, f, out) ==
    IF f > Len(bands) THEN out
    ELSE SynthesizeBands(sim, bands, f + 1,
             PushPulses(out, bands[f],
                 synthesizeRadiosityPulses(sim.rrHistograms[bands[f]],
                     sim.rrConfig.histogramResolution, sim.rrConfig.poissonDensity,
                     sim.rrConfig.minEnergyThreshold, 0,
                     [pulses |-> << >>, s |-> out.s])))

\* arrivalsByBand[freq].sort((a, b) => a.time - b.time), for every band
SortBands(syn) == [syn EXCEPT !.arrivals = [b \in DOMAIN @ |-> SortByTime(@[b])]]

\* the end of the last batch: synthesis and sort, both only when the
\* radiosity tail is on
Finalize(sim, s) ==
    IF sim.rrConfig.enabled /\ sim.histogramBins > 0
    THEN SortBands(SynthesizeBands(sim, BandSeq(sim.params), 1,
                       [arrivals |-> sim.arrivals, late |-> 0, s |-> s]))
    ELSE [arrivals |-> sim.arrivals, late |-> 0, s |-> s]

\* ---------------------------------------------------------------- messages to the main thread
\* The fields sim and cause are not part of the posted message: they name the
\* simulation, or the command, the message belongs to.
ReadyEvent == [type |-> "ready", sim |-> 0]
\* roomGeometry is not part of the posted message: it is the data of the command answered
GeometrySetEvent(geomData) == [type |-> "geometrySet", sim |-> 0, roomGeometry |-> geomData]
ErrorEvent(cause, id) == [type |-> "error", sim |-> id, cause |-> cause]

\* progress: processedRays / numRays, kept as the fraction it is computed from
ProgressEvent(id, processedRays, numRays, currentArrivals) ==
    [type |-> "progress", sim |-> id,
     progress |-> [num |-> processedRays, den |-> numRays],
     currentArrivals |-> currentArrivals]

RECURSIVE TotalLength(_, _)
TotalLength(arrivals, bands) ==
    IF bands = {} THEN 0
    ELSE LET b == CHOOSE x \in bands : TRUE
         IN  Len(arrivals[b]) + TotalLength(arrivals, bands \ {b})

\* Object.values(arrivalsByBand).reduce((s, a) => s + a.length, 0), or arrivals.length
CountArrivals(arrivals) == TotalLength(arrivals, DOMAIN arrivals)

CompleteEvent(id, sim, arrivals, lateArrivalCount) ==
    [type |-> "complete", sim |-> id,
     byBand |-> sim.params.useFreqDependent,
     arrivals |-> arrivals,
     freqBands |-> IF sim.params.useFreqDependent THEN BandSeq(sim.params) ELSE << >>,
     totalArrivals |-> CountArrivals(arrivals),
     rayRadiosity |-> [enabled |-> sim.rrConfig.enabled,
                       lateArrivalCount |-> lateArrivalCount,
                       histogramBins |-> sim.histogramBins,
                       rrConfig |-> sim.rrConfig]]

\* ---------------------------------------------------------------- processBatch
\* const endRay = Math.min(processedRays + batchSize, numRays)
EndRay(sim) == Min(sim.processedRays + sim.params.batchSize, sim.params.numRays)

\* if (processedRays < numRays) setTimeout(processBatch, 0); else finish
RescheduleOffByOne(processedRays, numRays) == processedRays + 1 < numRays
Reschedule(processedRays, numRays) == processedRays < numRays

\* the closure after the ray loop of one batch
Traced(sim, w, acc) ==
    [sim EXCEPT !.arrivals = acc.arrivals,
                !.rrHistograms = acc.hist,
                !.rrContributionCount = acc.count,
                !.processedRays = EndRay(sim),
                !.wallHits = acc.wallHits,
                !.batches = @ + 1,
                !.fixed = @ /\ w = sim.world]

\* earlyArrivals + (useRayRadiosity ? rrContributionCount : 0)
CurrentArrivals(sim) ==
    CountArrivals(sim.arrivals) + (IF sim.rrConfig.enabled THEN sim.rrContributionCount ELSE 0)

\* the last batch: Math.random = restoreRandom comes first, then the synthesis
\* (fin), then the complete message
Finish(id, traced, rng1, progress, fin) ==
    [sim |-> [traced EXCEPT !.arrivals = fin.arrivals, !.status = "complete"],
     rng |-> [rng1 EXCEPT ![traced.restoreRandom] = fin.s],
     random |-> traced.restoreRandom,
     posts |-> <<progress, CompleteEvent(id, traced, fin.arrivals, fin.late)>>,
     again |-> FALSE, thrown |-> FALSE]

\* a batch whose ray loop did not throw: progress, then either setTimeout or the end
Posted(id, traced, random, rng1, progress) ==
    IF Reschedule(traced.processedRays, traced.params.numRays)
    THEN [sim |-> traced, rng |-> rng1, random |-> random,
          posts |-> <<progress>>, again |-> TRUE, thrown |-> FALSE]
    ELSE Finish(id, traced, rng1, progress, Finalize(traced, rng1[traced.restoreRandom]))

\* a batch after its ray loop
AfterRays(id, sim, random, rng1, traced, thrown) ==
    IF thrown
    THEN [sim |-> [sim EXCEPT !.status = "failed"], rng |-> rng1, random |-> random,
          posts |-> << >>, again |-> FALSE, thrown |-> TRUE]
    ELSE Posted(id, traced, random, rng1,
                ProgressEvent(id, traced.processedRays, traced.params.numRays,
                              CurrentArrivals(traced)))

\* the ray loop of one batch, from the closure's state
Rays(sim, s, w) ==
    RayLoop(sim, w, sim.processedRays, EndRay(sim),
            [arrivals |-> sim.arrivals, hist |-> sim.rrHistograms,
             count |-> sim.rrContributionCount, s |-> s,
             wallHits |-> sim.wallHits, thrown |-> FALSE])

Batch(id, sim, random, rngs, w, acc) ==
    AfterRays(id, sim, random, [rngs EXCEPT ![random] = acc.s], Traced(sim, w, acc),
              acc.thrown)

\* One call of the closure processBatch of simulation id, with Math.random
\* being generator `random`: the closure afterwards, the generators, what
\* Math.random is afterwards, the messages posted, whether setTimeout was
\* called, and whether the call threw (then nothing was posted).
processBatch(id, sim, random, rngs, w) ==
    Batch(id, sim, random, rngs, w, Rays(sim, rngs[random], w))

\* ---------------------------------------------------------------- main thread: rrConfig
\* CONFIG.RAY_RADIOSITY, in the units of the model
MainRRDefaults ==
    [enabled |-> TRUE, scatteringCoeff |-> 1, histogramResolution |-> 6,
     maxTime |-> 12, hybridBounceThreshold |-> 3, poissonDensity |-> 22,
     minEnergyThreshold |-> 0, diffuseGain |-> 2]

\* { ...base, ...(configOverrides || {}) }
MergedRRConfig(configOverrides) ==
    [k \in DOMAIN MainRRDefaults |->
        IF k \in DOMAIN configOverrides THEN configOverrides[k] ELSE MainRRDefaults[k]]

\* the clamps of normalizeRayRadiosityConfig.  A bound is the smallest value of
\* the model's grid it admits: 0.0005 is 5 (the worker's 1e-4 being 1), 0.1 is
\* 1, 0.01 is 1, 1e-12 is 0.
ClampedMainRRConfig(cfg) ==
    [cfg EXCEPT !.scatteringCoeff = Max(0, Min(2, @)),
                !.histogramResolution = Max(5, @),
                !.maxTime = Max(Max(5, cfg.histogramResolution), @),
                !.hybridBounceThreshold = Max(0, @),
                !.poissonDensity = Max(1, @),
                !.minEnergyThreshold = Max(0, @),
                !.diffuseGain = Max(1, @)]

normalizeRayRadiosityConfig(configOverrides) ==
    ClampedMainRRConfig(MergedRRConfig(configOverrides))

\* ---------------------------------------------------------------- inputs
BaseRRConfig ==
    [enabled |-> TRUE, scatteringCoeff |-> 1, histogramResolution |-> 2,
     maxTime |-> 12, hybridBounceThreshold |-> 0, poissonDensity |-> 12,
     minEnergyThreshold |-> 0, diffuseGain |-> 1]

BaseParams ==
    [numRays |-> 3, maxBounces |-> 3, wallAbsorption |-> 1, useFreqDependent |-> TRUE,
     absorptionCoeffs |-> (200 :> 0 @@ 800 :> 1), seed |-> "a", speedOfSound |-> 1,
     batchSize |-> 2, rrConfig |-> BaseRRConfig]

\* the data of the simulate commands the model sends
SimulationParams ==
    { BaseParams,
      [BaseParams EXCEPT !.rrConfig = [enabled |-> FALSE]],
      [BaseParams EXCEPT !.seed = ""],
      [BaseParams EXCEPT !.useFreqDependent = FALSE],
      [BaseParams EXCEPT !.numRays = 0],
      [BaseParams EXCEPT !.numRays = -1],
      [BaseParams EXCEPT !.batchSize = -1],
      [BaseParams EXCEPT !.maxBounces = 0],
      [BaseParams EXCEPT !.absorptionCoeffs = << >>],
      [BaseParams EXCEPT !.absorptionCoeffs = (200 :> 3)],
      [BaseParams EXCEPT !.rrConfig = [BaseRRConfig EXCEPT !.histogramResolution = 0]],
      [BaseParams EXCEPT !.rrConfig = [BaseRRConfig EXCEPT !.maxTime = 1]],
      [BaseParams EXCEPT !.absorptionCoeffs = (200 :> 2 @@ 800 :> 2),
                         !.rrConfig = [enabled |-> FALSE]],
      [BaseParams EXCEPT !.absorptionCoeffs = (200 :> 1 @@ 800 :> 1),
                         !.maxBounces = 6,
                         !.rrConfig = [enabled |-> FALSE, scatteringCoeff |-> 0]],
      [BaseParams EXCEPT !.rrConfig = [BaseRRConfig EXCEPT !.histogramResolution = 4,
                                                           !.maxTime = 6]],
      [BaseParams EXCEPT !.rrConfig = normalizeRayRadiosityConfig([enabled |-> TRUE])],
      [BaseParams EXCEPT !.rrConfig =
          normalizeRayRadiosityConfig([hybridBounceThreshold |-> 65])] }

\* the simulate commands of the specification of the whole protocol
ProtocolParams ==
    { BaseParams,
      [BaseParams EXCEPT !.seed = ""],
      [BaseParams EXCEPT !.numRays = 2, !.batchSize = 1,
                         !.rrConfig = [enabled |-> FALSE]] }

\* data of the setGeometry commands the model sends.  roomGeometry: with
\* positions and indices, with positions only, or with positions that make
\* createRoomMesh throw; emitterPosition: an object, or null
Indexed(half, open) == [kind |-> "indexed", half |-> half, open |-> open]
PositionsOnly == [kind |-> "positionsOnly", half |-> 4, open |-> FALSE]
BadPositions == [kind |-> "bad", half |-> 0, open |-> FALSE]
At(x) == [null |-> FALSE, x |-> x]
NullPosition == [null |-> TRUE, x |-> 0]

GeometryCommand(g, r, p) == [roomGeometry |-> g, emitterRadius |-> r, emitterPosition |-> p]

GeometryCommands ==
    { GeometryCommand(Indexed(4, FALSE), 1, At(2)),
      GeometryCommand(Indexed(6, TRUE), 2, At(2)),
      GeometryCommand(Indexed(4, FALSE), 2, At(0)),
      GeometryCommand(PositionsOnly, 1, At(2)),
      GeometryCommand(BadPositions, 1, At(2)),
      GeometryCommand(Indexed(6, FALSE), 2, NullPosition) }

ReadyGeometryCommands ==
    { GeometryCommand(Indexed(4, FALSE), 1, At(2)),
      GeometryCommand(Indexed(6, TRUE), 2, At(2)) }

\* ---------------------------------------------------------------- the worker
\* the main thread after init(): the scene and the listeners are set up,
\* initWorker created the worker and posted init, the splash is showing
MainAfterInit ==
    [isSimulating |-> FALSE, workerGeometryReady |-> FALSE, workerInstance |-> TRUE,
     useWebWorker |-> TRUE, audioContext |-> FALSE, checkGeometry |-> FALSE,
     geometryTimeout |-> FALSE, realtimeSimTimeout |-> FALSE, mainThreadBatch |-> FALSE,
     toWorker |-> << "init" >>, fromWorker |-> << >>, userEvents |-> 0,
     started |-> << >>]

Init ==
    /\ raycaster = FALSE
    /\ roomMesh = NoRoomMesh
    /\ emitterMesh = NoEmitterMesh
    /\ emitterRadius = 1        \* 0.5: half of the smallest radius a command gives
    /\ emitterPosition = 0
    /\ emitterPositionVec = 0
    /\ mathRandom = 0
    /\ \E n \in NativeStates : rng = [g \in 0..MaxCommands |-> IF g = 0 THEN n ELSE 0]
    /\ sims = << >>
    /\ timers = << >>
    /\ closing = FALSE
    /\ outbox = << >>
    /\ warned = FALSE
    /\ commands = 0
    /\ terminated = FALSE
    /\ dropped = {}
    /\ audio = [op |-> "none"]
    /\ main = MainAfterInit

\* the event loop runs a task only while the worker is not closing
Running == ~closing

\* case 'init'
InitWorker ==
    /\ Running
    /\ commands < MaxCommands
    /\ commands' = commands + 1
    /\ raycaster' = TRUE
    /\ outbox' = Append(outbox, ReadyEvent)
    /\ UNCHANGED << main, audio, roomMesh, emitterMesh, emitterRadius, emitterPosition,
                    emitterPositionVec, mathRandom, rng, sims, timers, closing,
                    warned, terminated, dropped >>

\* the mesh createRoomMesh builds from the data, with its BVH
RoomMeshOf(geomData) ==
    [present |-> TRUE, half |-> geomData.half, open |-> geomData.open, boundsTree |-> TRUE]

\* createRoomMesh is called only when positions and indices are both given
createRoomMeshCalled(geomData) == geomData.kind \in {"indexed", "bad"}

\* case 'setGeometry'
SetGeometry(geomData, radius, pos) ==
    LET room == IF geomData.kind = "indexed" THEN RoomMeshOf(geomData) ELSE roomMesh
    IN  /\ Running
        /\ commands < MaxCommands
        /\ commands' = commands + 1
        /\ IF createRoomMeshCalled(geomData) /\ geomData.kind = "bad"
           THEN \* createRoomMesh throws before it assigns roomMesh
                /\ outbox' = Append(outbox, ErrorEvent("setGeometry", 0))
                /\ UNCHANGED << roomMesh, emitterMesh, emitterRadius, emitterPosition,
                                emitterPositionVec >>
           ELSE IF pos.null
           THEN \* createEmitterMesh assigns emitterMesh, then position.x throws
                /\ roomMesh' = room
                /\ emitterMesh' = [present |-> TRUE, radius |-> radius, pos |-> 0,
                                   boundsTree |-> TRUE]
                /\ outbox' = Append(outbox, ErrorEvent("setGeometry", 0))
                /\ UNCHANGED << emitterRadius, emitterPosition, emitterPositionVec >>
           ELSE /\ roomMesh' = room
                /\ emitterMesh' = [present |-> TRUE, radius |-> radius, pos |-> pos.x,
                                   boundsTree |-> TRUE]
                /\ emitterPositionVec' = pos.x
                /\ emitterRadius' = radius
                /\ emitterPosition' = pos.x
                /\ outbox' = Append(outbox, GeometrySetEvent(geomData))
        /\ UNCHANGED << main, audio, raycaster, mathRandom, rng, sims, timers, closing, warned,
                        terminated, dropped >>

\* the module state after a call of processBatch that returned r
Ran(id, r, cause, sims1, timers1) ==
    /\ sims' = [sims1 EXCEPT ![id] = r.sim]
    /\ rng' = r.rng
    /\ mathRandom' = r.random
    /\ timers' = IF r.again THEN Append(timers1, id) ELSE timers1
    /\ outbox' = IF r.thrown THEN Append(outbox, ErrorEvent(cause, id))
                 ELSE outbox \o r.posts

\* seedrandom(seed, { global: true }) when a seed is given: the generator
\* Math.random is, and the generators
Seeded(id, seed) == IF seed # "" THEN id ELSE mathRandom
SeededRng(id, seed) == IF seed # "" THEN [rng EXCEPT ![id] = SeedState(seed)] ELSE rng

\* runSimulation(data) up to the end of its first processBatch
runSimulation(id, params) ==
    processBatch(id, NewSimulation(params, mathRandom), Seeded(id, params.seed),
                 SeededRng(id, params.seed), World)

\* case 'simulate'; an exception is caught and posted as an error
Simulate(params) ==
    /\ Running
    /\ commands < MaxCommands
    /\ commands' = commands + 1
    /\ \E r \in {runSimulation(Len(sims) + 1, params)} :
           Ran(Len(sims) + 1, r, "simulate", Append(sims, r.sim), timers)
    /\ UNCHANGED << main, audio, raycaster, roomMesh, emitterMesh, emitterRadius, emitterPosition,
                    emitterPositionVec, closing, warned, terminated, dropped >>

\* the callback of setTimeout(processBatch, 0); an exception it throws reaches self.onerror
TimerFires ==
    /\ Running
    /\ timers # << >>
    /\ sims[Head(timers)].batches < MaxBatches
    /\ \E r \in {processBatch(Head(timers), sims[Head(timers)], mathRandom, rng, World)} :
           Ran(Head(timers), r, "onerror", sims, Tail(timers))
    /\ UNCHANGED << main, audio, raycaster, roomMesh, emitterMesh, emitterRadius, emitterPosition,
                    emitterPositionVec, closing, warned, commands, terminated,
                    dropped >>

\* geometry.disposeBoundsTree(), when the mesh exists and has a BVH
NotDisposed(mesh) == mesh
Disposed(mesh) == IF mesh.present THEN [mesh EXCEPT !.boundsTree = FALSE] ELSE mesh

\* self.close(): the closing flag of the worker after it
NoClose == closing
SelfClose == TRUE

\* case 'terminate'
Terminate ==
    /\ Running
    /\ commands < MaxCommands
    /\ commands' = commands + 1
    /\ roomMesh' = Disposed(roomMesh)
    /\ emitterMesh' = Disposed(emitterMesh)
    /\ closing' = SelfClose
    /\ terminated' = TRUE
    /\ UNCHANGED << main, audio, raycaster, emitterRadius, emitterPosition, emitterPositionVec,
                    mathRandom, rng, sims, timers, outbox, warned, dropped >>

\* default: a message of any other type
UnknownMessage ==
    /\ Running
    /\ commands < MaxCommands
    /\ commands' = commands + 1
    /\ warned' = TRUE
    /\ UNCHANGED << main, audio, raycaster, roomMesh, emitterMesh, emitterRadius, emitterPosition,
                    emitterPositionVec, mathRandom, rng, sims, timers, closing, outbox,
                    terminated, dropped >>

\* a command that arrives after self.close() is never handled
Discard(type) ==
    /\ closing
    /\ type \notin dropped
    /\ dropped' = dropped \cup {type}
    /\ UNCHANGED << main, audio, raycaster, roomMesh, emitterMesh, emitterRadius, emitterPosition,
                    emitterPositionVec, mathRandom, rng, sims, timers, closing, outbox,
                    warned, commands, terminated >>

Next ==
    \/ InitWorker
    \/ \E c \in GeometryCommands : SetGeometry(c.roomGeometry, c.emitterRadius, c.emitterPosition)
    \/ \E p \in ProtocolParams : Simulate(p)
    \/ TimerFires
    \/ Terminate
    \/ UnknownMessage
    \/ \E t \in {"simulate"} : Discard(t)

Spec == Init /\ [][Next]_vars

\* The same worker, driven with every kind of simulation parameters, after
\* or before a setGeometry command that succeeds.
NextParams ==
    \/ \E c \in ReadyGeometryCommands :
          SetGeometry(c.roomGeometry, c.emitterRadius, c.emitterPosition)
    \/ \E p \in SimulationParams : Simulate(p)
    \/ TimerFires

SpecParams == Init /\ [][NextParams]_vars

\* ---------------------------------------------------------------- main thread: audio
\* Samples of the per-band buffers are integers; the samples of the combined
\* buffer are in hundredths of full scale.  Samples of the buffer written to a
\* WAV file are in units of 1 / SampleOne.
Null == [null |-> TRUE]

\* (x | 0) of a quotient: truncation toward zero
Quot(a, b) == IF a >= 0 THEN a \div b ELSE -((-a) \div b)

\* the length of the longest of the buffers of freqs[f..] that exist
RECURSIVE MaxLength(_, _, _)
MaxLength(irBuffers, freqs, f) ==
    IF f > Len(freqs) THEN 0
    ELSE Max(IF freqs[f] \in DOMAIN irBuffers THEN Len(irBuffers[freqs[f]]) ELSE 0,
             MaxLength(irBuffers, freqs, f + 1))

\* combinedData[i] += irData[i], over the buffers of freqs[f..] that exist (i from 1)
RECURSIVE SumBands(_, _, _, _)
SumBands(irBuffers, freqs, f, i) ==
    IF f > Len(freqs) THEN 0
    ELSE (IF freqs[f] \in DOMAIN irBuffers /\ i <= Len(irBuffers[freqs[f]])
          THEN irBuffers[freqs[f]][i] ELSE 0)
         + SumBands(irBuffers, freqs, f + 1, i)

\* combinedData.reduce((max, sample) => Math.max(max, sample), 0), from sample i on
RECURSIVE MaxSigned(_, _)
MaxSigned(data, i) ==
    IF i > Len(data) THEN 0 ELSE Max(data[i], MaxSigned(data, i + 1))

\* combinedData.reduce((max, sample) => Math.max(max, Math.abs(sample)), 0), from sample i on
RECURSIVE MaxSample(_, _)
MaxSample(data, i) ==
    IF i > Len(data) THEN 0 ELSE Max(Abs(data[i]), MaxSample(data, i + 1))

\* const headroom = 0.98, in hundredths
Headroom == 98

\* combinedData[i] = (combinedData[i] / maxSample) * headroom, when maxSample > 0
Normalized(data, maxSample) ==
    IF maxSample > 0
    THEN [i \in 1..Len(data) |-> Quot(data[i] * Headroom, maxSample)]
    ELSE data

\* the combined buffer of maxLength samples
Combined(irBuffers, freqs, maxLength) ==
    IF maxLength = 0 THEN Null
    ELSE [null |-> FALSE,
          data |-> Normalized([i \in 1..maxLength |-> SumBands(irBuffers, freqs, 1, i)],
                              MaxSample([i \in 1..maxLength |->
                                            SumBands(irBuffers, freqs, 1, i)], 1))]

\* combineFrequencyBands(irBuffers, freqBands); audioContext: the module-level
\* audioContext exists
combineFrequencyBands(audioContext, irBuffers, freqBands) ==
    IF ~audioContext THEN Null
    ELSE Combined(irBuffers, SortedKeys(freqBands),
                  MaxLength(irBuffers, SortedKeys(freqBands), 1))

\* view.setUint16(pos, data, true) and view.setUint32(pos, data, true): the bytes written
SetUint16(data) == << data % 256, (data \div 256) % 256 >>
SetUint32(data) ==
    << data % 256, (data \div 256) % 256, (data \div 65536) % 256,
       (data \div 16777216) % 256 >>

\* view.setInt16(pos, sample, true): ToInt16 of the value, two's complement
SetInt16(sample) == SetUint16(sample % 65536)

\* the fixed-point unit of the samples of an AudioBuffer: SampleOne stands for 1.0
SampleOne == 4

\* Math.max(-1, Math.min(1, x))
Clamp(x) == Max(-SampleOne, Min(SampleOne, x))

\* (sample < 0 ? sample * 32768 : sample * 32767) | 0
ScaleBy32768(sample) == Quot(sample * 32768, SampleOne)
ScaleSample(sample) ==
    IF sample < 0 THEN Quot(sample * 32768, SampleOne) ELSE Quot(sample * 32767, SampleOne)

\* the 44 bytes written before the samples
WavHeader(aBuffer, length) ==
    SetUint32(1179011410) \o SetUint32(length - 8) \o SetUint32(1163280727)
    \o SetUint32(544501094) \o SetUint32(16) \o SetUint16(1)
    \o SetUint16(aBuffer.numberOfChannels) \o SetUint32(aBuffer.sampleRate)
    \o SetUint32(aBuffer.sampleRate * 2 * aBuffer.numberOfChannels)
    \o SetUint16(aBuffer.numberOfChannels * 2) \o SetUint16(16)
    \o SetUint32(1635017060) \o SetUint32(length - 40 - 4)

\* for (let i = 0; i < numOfChan; i++): the samples at one offset, channel i on (i from 1)
RECURSIVE WavFrame(_, _, _)
WavFrame(aBuffer, offset, i) ==
    IF i > aBuffer.numberOfChannels THEN << >>
    ELSE SetInt16(ScaleSample(Clamp(aBuffer.channels[i][offset + 1])))
         \o WavFrame(aBuffer, offset, i + 1)

\* while (pos < length): the frames from offset on
RECURSIVE WavFrames(_, _)
WavFrames(aBuffer, offset) ==
    IF offset >= aBuffer.length THEN << >>
    ELSE WavFrame(aBuffer, offset, 1) \o WavFrames(aBuffer, offset + 1)

\* audioBufferToWav(aBuffer): the bytes of the blob
audioBufferToWav(aBuffer) ==
    WavHeader(aBuffer, aBuffer.length * aBuffer.numberOfChannels * 2 + 44)
    \o WavFrames(aBuffer, 0)

\* inputs of the audio functions
BandSamples == {-3, 0, 2}
BandBuffers == UNION {[1..n -> BandSamples] : n \in 0..2}
Bands == {200, 800}
IrBuffers == UNION {[S -> BandBuffers] : S \in SUBSET Bands}

WavSamples == {-5, -4, -3, 0, 3, 4}
AudioBuffers ==
    UNION {{[numberOfChannels |-> c, length |-> n, sampleRate |-> 8000, channels |-> ch] :
               ch \in [1..c -> [1..n -> WavSamples]]} : c \in 1..2, n \in 0..2}

CombineFrequencyBands(audioContext, irBuffers) ==
    /\ audio.op = "none"
    /\ audio' = [op |-> "combineFrequencyBands", audioContext |-> audioContext,
                 irBuffers |-> irBuffers,
                 result |-> combineFrequencyBands(audioContext, irBuffers, Bands)]
    /\ UNCHANGED << main, raycaster, roomMesh, emitterMesh, emitterRadius, emitterPosition,
                    emitterPositionVec, mathRandom, rng, sims, timers, closing, outbox,
                    warned, commands, terminated, dropped >>

AudioBufferToWav(aBuffer) ==
    /\ audio.op = "none"
    /\ audio' = [op |-> "audioBufferToWav", aBuffer |-> aBuffer,
                 result |-> audioBufferToWav(aBuffer)]
    /\ UNCHANGED << main, raycaster, roomMesh, emitterMesh, emitterRadius, emitterPosition,
                    emitterPositionVec, mathRandom, rng, sims, timers, closing, outbox,
                    warned, commands, terminated, dropped >>

\* createIRAudioBuffer.  Arrival times are in ticks, TicksPerSecond to the
\* second; the sample rate is in samples per second; an arrival amplitude of
\* 1.0 is SampleOne and a sample of the buffer is in units of
\* 1 / (SampleOne * TicksPerSecond), so that the products with the fraction of
\* a sample are exact.
TicksPerSecond == 32
IrOne == SampleOne * TicksPerSecond

\* arrivals.reduce((max, arr) => Math.max(max, arr.time), 0), from arrival k on
RECURSIVE MaxArrivalTime(_, _)
MaxArrivalTime(arrivals, k) ==
    IF k > Len(arrivals) THEN 0 ELSE Max(arrivals[k].time, MaxArrivalTime(arrivals, k + 1))

\* a buffer that ends with the last arrival, without the half second after it
BufferLengthNoTail(maxTime, sampleRate) ==
    CeilDiv(Max(maxTime, TicksPerSecond) * sampleRate, TicksPerSecond)

\* Math.ceil(Math.max(maxTime + 0.5, 1) * sampleRate)
BufferLength(maxTime, sampleRate) ==
    CeilDiv(Max(maxTime + TicksPerSecond \div 2, TicksPerSecond) * sampleRate, TicksPerSecond)

\* exactSample = arrival.time * sampleRate, in 1 / TicksPerSecond of a sample;
\* baseSample = Math.floor(exactSample); fraction = exactSample - baseSample
ExactSample(arrival, sampleRate) == arrival.time * sampleRate
BaseSample(arrival, sampleRate) == ExactSample(arrival, sampleRate) \div TicksPerSecond
Fraction(arrival, sampleRate) == ExactSample(arrival, sampleRate) % TicksPerSecond

\* the body of the loop over the arrivals (bufferData[n + 1] is sample n)
AddArrival(bufferData, arrival, baseSample, fraction) ==
    IF baseSample < Len(bufferData) - 1
    THEN [bufferData EXCEPT
             ![baseSample + 1] = @ + arrival.amplitude * (TicksPerSecond - fraction),
             ![baseSample + 2] = @ + arrival.amplitude * fraction]
    ELSE IF baseSample < Len(bufferData)
    THEN [bufferData EXCEPT ![baseSample + 1] = @ + arrival.amplitude * TicksPerSecond]
    ELSE bufferData

\* for (const arrival of arrivals), from arrival k on
RECURSIVE Accumulate(_, _, _, _)
Accumulate(arrivals, k, sampleRate, bufferData) ==
    IF k > Len(arrivals) THEN bufferData
    ELSE Accumulate(arrivals, k + 1, sampleRate,
                    AddArrival(bufferData, arrivals[k], BaseSample(arrivals[k], sampleRate),
                               Fraction(arrivals[k], sampleRate)))

\* the buffer divided by its peak whenever the peak is not zero
AlwaysNormalize(bufferData, maxSample) ==
    IF maxSample > 0
    THEN [i \in 1..Len(bufferData) |-> Quot(bufferData[i] * IrOne, maxSample)]
    ELSE bufferData

\* if (maxSample > 1.0) bufferData[i] /= maxSample
SafetyNormalize(bufferData, maxSample) ==
    IF maxSample > IrOne
    THEN [i \in 1..Len(bufferData) |-> Quot(bufferData[i] * IrOne, maxSample)]
    ELSE bufferData

\* the buffer of bufferLength samples
IrBuffer(arrivals, sampleRate, bufferData) ==
    [length |-> Len(bufferData), sampleRate |-> sampleRate,
     data |-> SafetyNormalize(bufferData, MaxSample(bufferData, 1))]

\* createIRAudioBuffer(arrivals, sampleRateOverride), sampleRate being
\* sampleRateOverride || audioContext.sampleRate
createIRAudioBuffer(arrivals, sampleRate) ==
    IF Len(arrivals) = 0
    THEN [length |-> 1, sampleRate |-> sampleRate, data |-> << 0 >>]
    ELSE IrBuffer(arrivals, sampleRate,
                  Accumulate(arrivals, 1, sampleRate,
                      [i \in 1..BufferLength(MaxArrivalTime(arrivals, 1), sampleRate) |-> 0]))

\* arrival lists: times of 0, 10/32, 11/32 and 40/32 of a second, amplitudes
\* of -1.0, 0.5 and 0.75
ArrivalTimes == {0, 10, 11, 40}
ArrivalAmplitudes == {-4, 2, 3}
IrArrivals == {[time |-> tm, amplitude |-> a] : tm \in ArrivalTimes, a \in ArrivalAmplitudes}
ArrivalLists ==
    {<< >>} \cup {<< a >> : a \in IrArrivals} \cup {<< a, b >> : a \in IrArrivals, b \in IrArrivals}
SampleRates == {4, 8}

\* histograms of two bins, in units of energy
BinEnergies == {0, 1, 16, 64}
Histograms == {<< e0, e1 >> : e0 \in BinEnergies, e1 \in BinEnergies}
BinSizes == {1, 3}
PoissonDensities == {1, 12}
MinEnergies == {0, 16}
GeneratorStates == {0, 5, 30, 41}

\* synthesizeRadiosityPulses called on a histogram with Math.random in state s
SynthesizeRadiosityPulses(histogram, binSize, poissonDensity, minEnergy, s) ==
    /\ audio.op = "none"
    /\ audio' = [op |-> "synthesizeRadiosityPulses", histogram |-> histogram,
                 binSize |-> binSize, poissonDensity |-> poissonDensity,
                 minEnergy |-> minEnergy,
                 result |-> synthesizeRadiosityPulses(histogram, binSize, poissonDensity,
                                minEnergy, 0, [pulses |-> << >>, s |-> s]).pulses]
    /\ UNCHANGED << main, raycaster, roomMesh, emitterMesh, emitterRadius, emitterPosition,
                    emitterPositionVec, mathRandom, rng, sims, timers, closing, outbox,
                    warned, commands, terminated, dropped >>

CreateIRAudioBuffer(arrivals, sampleRate) ==
    /\ audio.op = "none"
    /\ audio' = [op |-> "createIRAudioBuffer", arrivals |-> arrivals,
                 sampleRate |-> sampleRate,
                 result |-> createIRAudioBuffer(arrivals, sampleRate)]
    /\ UNCHANGED << main, raycaster, roomMesh, emitterMesh, emitterRadius, emitterPosition,
                    emitterPositionVec, mathRandom, rng, sims, timers, closing, outbox,
                    warned, commands, terminated, dropped >>

\* the pure functions of the audio path, each called once on every input
NextAudio ==
    \/ \E c \in BOOLEAN, b \in IrBuffers : CombineFrequencyBands(c, b)
    \/ \E a \in AudioBuffers : AudioBufferToWav(a)
    \/ \E h \in Histograms, dt \in BinSizes, d \in PoissonDensities,
          e \in MinEnergies, s \in GeneratorStates :
           SynthesizeRadiosityPulses(h, dt, d, e, s)
    \/ \E a \in ArrivalLists, r \in SampleRates : CreateIRAudioBuffer(a, r)

SpecAudio == Init /\ [][NextAudio]_vars

\* ---------------------------------------------------------------- main thread
\* The simulation control of main.js.  main.toWorker holds the messages
\* posted to the worker and not yet handled by it, main.fromWorker the
\* messages it posted back and handleWorkerMessage has not yet received.
\* main.started records every start of a simulation: where it runs and the
\* values of state.isSimulating and state.workerGeometryReady at that moment.
MaxUserEvents == 3

\* updateWorkerGeometry(): state.roomMesh exists after init()
updateWorkerGeometry(m) ==
    IF ~m.workerInstance THEN m
    ELSE [m EXCEPT !.workerGeometryReady = FALSE, !.toWorker = Append(@, "setGeometry")]

\* fallbackToSimpleBVH(): workerInstance.terminate() discards the messages
\* in both directions
fallbackToSimpleBVH(m) ==
    [m EXCEPT !.workerInstance = FALSE, !.useWebWorker = FALSE, !.isSimulating = FALSE,
              !.toWorker = << >>, !.fromWorker = << >>]

StartOf(m, kind) ==
    [kind |-> kind, isSimulating |-> m.isSimulating,
     workerGeometryReady |-> m.workerGeometryReady]

\* state.isSimulating = true; workerInstance.postMessage({ type: 'simulate', ... })
PostSimulate(m) ==
    [m EXCEPT !.started = Append(@, StartOf(m, "worker")),
              !.isSimulating = TRUE,
              !.toWorker = Append(@, "simulate")]

\* runQuickMainThreadSimulation(params): synchronous, from state.isSimulating =
\* true to state.isSimulating = false (the scene exists after init())
runQuickMainThreadSimulation(m) ==
    [m EXCEPT !.started = Append(@, StartOf(m, "main")), !.isSimulating = FALSE]

runRealtimeSimulation(m) ==
    IF m.isSimulating THEN m
    ELSE IF m.useWebWorker /\ m.workerInstance /\ m.workerGeometryReady THEN PostSimulate(m)
    ELSE IF ~m.useWebWorker THEN runQuickMainThreadSimulation(m)
    ELSE m

runInitialSimulation(m) ==
    IF m.useWebWorker /\ m.workerInstance /\ m.workerGeometryReady THEN PostSimulate(m)
    ELSE runQuickMainThreadSimulation(m)

\* runSimulationMainThread() up to its first setTimeout(processBatch, 0)
runSimulationMainThread(m) ==
    IF m.isSimulating THEN m
    ELSE [m EXCEPT !.started = Append(@, StartOf(m, "main")),
                   !.isSimulating = TRUE, !.mainThreadBatch = TRUE]

runSimulationWorker(m) ==
    IF m.isSimulating THEN m
    ELSE IF ~m.workerInstance THEN runSimulationMainThread(m)
    ELSE IF ~m.workerGeometryReady THEN m
    ELSE PostSimulate(m)

handleWorkerMessage(m, type) ==
    CASE type = "ready" -> updateWorkerGeometry(m)
      [] type = "geometrySet" -> [m EXCEPT !.workerGeometryReady = TRUE]
      [] type = "complete" -> [m EXCEPT !.isSimulating = FALSE]
      [] type = "error" -> fallbackToSimpleBVH(m)
      [] OTHER -> m

\* startApp() after init(): the initial simulation now, or the interval and
\* the timeout that wait for the geometry
startApp(m) ==
    IF m.workerGeometryReady \/ ~m.workerInstance
    THEN runInitialSimulation([m EXCEPT !.audioContext = TRUE])
    ELSE [m EXCEPT !.audioContext = TRUE, !.checkGeometry = TRUE, !.geometryTimeout = TRUE]

\* the replies of the worker to one message (self.onmessage): ready to
\* init, geometrySet or error to setGeometry, progress and complete or error
\* to simulate
WorkerReplies(type) ==
    CASE type = "init" -> {<< "ready" >>}
      [] type = "setGeometry" -> {<< "geometrySet" >>, << "error" >>}
      [] type = "simulate" -> {<< "progress", "complete" >>, << "error" >>}

MainOnly ==
    UNCHANGED << raycaster, roomMesh, emitterMesh, emitterRadius, emitterPosition,
                 emitterPositionVec, mathRandom, rng, sims, timers, closing, outbox,
                 warned, commands, terminated, dropped, audio >>

UserEvent(m) == [m EXCEPT !.userEvents = @ + 1]

\* the worker handles the oldest message posted to it
WorkerHandles ==
    /\ main.workerInstance
    /\ main.toWorker # << >>
    /\ \E r \in WorkerReplies(Head(main.toWorker)) :
           main' = [main EXCEPT !.toWorker = Tail(@), !.fromWorker = @ \o r]
    /\ MainOnly

\* workerInstance.onmessage
HandleWorkerMessage ==
    /\ main.fromWorker # << >>
    /\ main' = handleWorkerMessage([main EXCEPT !.fromWorker = Tail(@)], Head(main.fromWorker))
    /\ MainOnly

\* the click on the splash
StartApp ==
    /\ ~main.audioContext
    /\ main.userEvents < MaxUserEvents
    /\ main' = startApp(UserEvent(main))
    /\ MainOnly

\* the callback of setInterval(..., 100) of startApp
CheckGeometry ==
    /\ main.checkGeometry
    /\ main' = IF main.workerGeometryReady
               THEN runInitialSimulation([main EXCEPT !.checkGeometry = FALSE])
               ELSE main
    /\ main' # main
    /\ MainOnly

\* the callback of setTimeout(..., 5000) of startApp
GeometryTimeout ==
    /\ main.geometryTimeout
    /\ main' = IF ~main.workerGeometryReady
               THEN runInitialSimulation([main EXCEPT !.checkGeometry = FALSE,
                                                      !.geometryTimeout = FALSE])
               ELSE [main EXCEPT !.checkGeometry = FALSE, !.geometryTimeout = FALSE]
    /\ MainOnly

\* the click on the start button
StartButton ==
    /\ main.audioContext
    /\ main.userEvents < MaxUserEvents
    /\ main' = IF main.useWebWorker /\ main.workerInstance
               THEN runSimulationWorker(UserEvent(main))
               ELSE runSimulationMainThread(UserEvent(main))
    /\ MainOnly

\* the last batch of runSimulationMainThread: finalizeSimulation()
MainThreadBatch ==
    /\ main.mainThreadBatch
    /\ main' = [main EXCEPT !.mainThreadBatch = FALSE, !.isSimulating = FALSE]
    /\ MainOnly

\* a change of a geometry slider: sendPendingGeometryUpdate()
GeometryChange ==
    /\ main.userEvents < MaxUserEvents
    /\ main' = [updateWorkerGeometry(UserEvent(main)) EXCEPT !.realtimeSimTimeout = TRUE]
    /\ MainOnly

\* the callback of realtimeSimTimeout
RealtimeSimTimeout ==
    /\ main.realtimeSimTimeout
    /\ main' = runRealtimeSimulation([main EXCEPT !.realtimeSimTimeout = FALSE])
    /\ MainOnly

\* a change of an absorption input
AbsorptionChange ==
    /\ main.userEvents < MaxUserEvents
    /\ main' = IF ~main.isSimulating THEN runRealtimeSimulation(UserEvent(main))
               ELSE UserEvent(main)
    /\ MainOnly

\* the user ticks or unticks the useWebWorker checkbox
ToggleWebWorker ==
    /\ main.userEvents < MaxUserEvents
    /\ main' = [UserEvent(main) EXCEPT !.useWebWorker = ~@]
    /\ MainOnly

NextMain ==
    \/ WorkerHandles
    \/ HandleWorkerMessage
    \/ StartApp
    \/ CheckGeometry
    \/ GeometryTimeout
    \/ StartButton
    \/ MainThreadBatch
    \/ GeometryChange
    \/ RealtimeSimTimeout
    \/ AbsorptionChange
    \/ ToggleWebWorker

SpecMain == Init /\ [][NextMain]_vars

\* ---------------------------------------------------------------- properties
Events == 1..Len(outbox)
SimIds == 1..Len(sims)

EventsOf(id, type) == {k \in Events : outbox[k].sim = id /\ outbox[k].type = type}

\* simulation i posted its complete before simulation j posted anything
RanBefore(i, j) ==
    \E k \in EventsOf(i, "complete") : \A m \in Events : outbox[m].sim = j => m > k

GeometryReady(w) == w.roomMesh.present /\ w.emitterMesh.present

\* C1: two simulations run one after the other on the same geometry with the
\* same non-empty seed and the same parameters end with the same arrival
\* lists (early arrivals and synthesized pulses) and the same histograms.
C1_Determinism ==
    \A i, j \in SimIds :
        ( /\ RanBefore(i, j)
          /\ sims[i].status = "complete" /\ sims[j].status = "complete"
          /\ sims[i].params = sims[j].params
          /\ sims[i].params.seed # ""
          /\ sims[i].world = sims[j].world
          /\ sims[i].fixed /\ sims[j].fixed )
        => /\ sims[i].arrivals = sims[j].arrivals
           /\ sims[i].rrHistograms = sims[j].rrHistograms

\* C2: a simulation started with room and receiver present, numRays >= 1 and
\* batchSize >= 1 posts one progress per call of processBatch, at most
\* ceil(numRays / batchSize) of them, no error, and its complete exactly once,
\* with the last of the ceil(numRays / batchSize) batches and after every progress.
C2_ProgressThenComplete ==
    \A id \in SimIds :
        LET p == sims[id].params
            batchCount == CeilDiv(p.numRays, p.batchSize)
            progress == EventsOf(id, "progress")
            complete == EventsOf(id, "complete")
        IN  (GeometryReady(sims[id].world) /\ p.numRays >= 1 /\ p.batchSize >= 1)
            => /\ Cardinality(progress) = sims[id].batches
               /\ sims[id].batches <= batchCount
               /\ EventsOf(id, "error") = {}
               /\ Cardinality(complete) <= 1
               /\ (complete # {}) <=> (sims[id].batches = batchCount)
               /\ \A c \in complete : \A k \in progress : k < c

C2_Witness ==
    \E id \in SimIds :
        /\ GeometryReady(sims[id].world)
        /\ sims[id].params.numRays = 3 /\ sims[id].params.batchSize = 2
        /\ Cardinality(EventsOf(id, "progress")) = 2
        /\ EventsOf(id, "complete") # {}

\* the value of a progress fraction is a number in 0..1 (0/0 is NaN)
InUnitInterval(f) ==
    /\ f.den # 0
    /\ IF f.den > 0 THEN 0 <= f.num /\ f.num <= f.den
                    ELSE f.den <= f.num /\ f.num <= 0

\* f <= g as numbers, for two fractions with the same denominator
AtMost(f, g) ==
    /\ f.den # 0
    /\ IF f.den > 0 THEN f.num <= g.num ELSE f.num >= g.num

\* f >= 0.999
NearlyOne(f) ==
    /\ f.den # 0
    /\ IF f.den > 0 THEN 1000 * f.num >= 999 * f.den
                    ELSE 1000 * f.num <= 999 * f.den

\* C3: the progress values of a simulation are numbers in 0..1, never
\* decrease, and the last one before complete is >= 0.999.
C3_ProgressMonotone ==
    \A id \in SimIds :
        LET progress == EventsOf(id, "progress")
        IN  /\ \A k \in progress : InUnitInterval(outbox[k].progress)
            /\ \A k, m \in progress :
                   k < m => AtMost(outbox[k].progress, outbox[m].progress)
            /\ \A c \in EventsOf(id, "complete") :
                   \E k \in progress :
                       /\ k < c
                       /\ \A m \in progress : m <= k
                       /\ NearlyOne(outbox[k].progress)

\* C4: every list of every complete message is in ascending order of time.
C4_CompleteSorted ==
    \A k \in Events :
        outbox[k].type = "complete"
        => \A b \in DOMAIN outbox[k].arrivals : IsSortedByTime(outbox[k].arrivals[b])

\* C5: once a terminate command was handled, no batch runs and nothing is posted.
C5_TerminateStopsBatches ==
    [][terminated => (sims' = sims /\ outbox' = outbox)]_vars

\* a terminate that came between two batches of a simulation
TerminatedMidRun ==
    /\ terminated
    /\ timers # << >>
    /\ EventsOf(Head(timers), "progress") # {}

C5_Witness == TerminatedMidRun /\ sims[Head(timers)].batches < MaxBatches

GeometryBuilt ==
    /\ roomMesh.present /\ roomMesh.boundsTree
    /\ emitterMesh.present /\ emitterMesh.boundsTree

\* C6 as stated: after a terminate between two batches no complete is posted,
\* the geometry remains built and a later simulate command is accepted.
C6_GeometryRemainsBuilt ==
    TerminatedMidRun
    => /\ EventsOf(Head(timers), "complete") = {}
       /\ GeometryBuilt
       /\ "simulate" \notin dropped

\* C6 as amended: after a terminate no simulation that was running posts a
\* complete, the BVH of both meshes is disposed and the worker is closing; a
\* simulate command that arrives then starts no simulation and posts nothing.
C6_TerminateClosesWorker ==
    /\ [](terminated =>
            /\ closing
            /\ ~roomMesh.boundsTree /\ ~emitterMesh.boundsTree
            /\ \A k \in 1..Len(timers) :
                   /\ sims[timers[k]].status = "running"
                   /\ EventsOf(timers[k], "complete") = {})
    /\ [][("simulate" \in dropped' /\ "simulate" \notin dropped)
            => (sims' = sims /\ outbox' = outbox /\ timers' = timers)]_vars

C6_Witness == TerminatedMidRun /\ "simulate" \in dropped /\ roomMesh.present

\* C7: a step that posts an error leaves the meshes, the stored receiver
\* radius and position and Math.random as they were.
C7_ErrorKeepsState ==
    [][(Len(outbox') = Len(outbox) + 1 /\ outbox'[Len(outbox')].type = "error")
         => /\ roomMesh' = roomMesh
            /\ emitterMesh' = emitterMesh
            /\ emitterRadius' = emitterRadius
            /\ emitterPosition' = emitterPosition
            /\ mathRandom' = mathRandom]_vars

\* C8: a simulation started without a room mesh or without a receiver posts
\* an error and neither a progress nor a complete.
C8_NotReadyIsError ==
    \A id \in SimIds :
        ~GeometryReady(sims[id].world)
        => /\ EventsOf(id, "error") # {}
           /\ EventsOf(id, "progress") = {}
           /\ EventsOf(id, "complete") = {}

\* C9: a message of unknown type is answered with an error.
C9_UnknownIsError ==
    warned => \E k \in Events : outbox[k].type = "error" /\ outbox[k].cause = "unknown"

\* the parameters section 7 of the specification calls invalid
InvalidParams(p) ==
    \/ p.numRays < 0
    \/ p.batchSize < 0
    \/ ("histogramResolution" \in DOMAIN p.rrConfig /\ p.rrConfig.histogramResolution <= 0)
    \/ /\ {"histogramResolution", "maxTime"} \subseteq DOMAIN p.rrConfig
       /\ p.rrConfig.maxTime < p.rrConfig.histogramResolution
    \/ /\ p.useFreqDependent
       /\ \E b \in DOMAIN p.absorptionCoeffs :
              p.absorptionCoeffs[b] < 0 \/ p.absorptionCoeffs[b] > 2
    \/ (p.useFreqDependent /\ DOMAIN p.absorptionCoeffs = {})

\* C10: a simulation with invalid parameters posts an error and no complete.
C10_InvalidParamsIsError ==
    \A id \in SimIds :
        InvalidParams(sims[id].params)
        => /\ EventsOf(id, "error") # {}
           /\ EventsOf(id, "complete") = {}

\* the first message simulation id posted is message k
FirstEventOf(id, k) == outbox[k].sim = id /\ \A m \in 1..(k - 1) : outbox[m].sim # id

\* C11: after the geometrySet reply to a setGeometry with positions and no
\* indices, a simulation started next traces against the mesh of those positions.
C11_PositionsOnlyBuildsMesh ==
    \A k \in 1..(Len(outbox) - 1) :
        ( /\ outbox[k].type = "geometrySet"
          /\ outbox[k].roomGeometry.kind = "positionsOnly"
          /\ outbox[k + 1].sim # 0
          /\ FirstEventOf(outbox[k + 1].sim, k + 1) )
        => sims[outbox[k + 1].sim].world.roomMesh = RoomMeshOf(outbox[k].roomGeometry)

\* C12: every batch of a simulation traces against the room mesh and the
\* receiver its first batch traced against.
C12_GeometryFixedDuringRun ==
    \A id \in SimIds : sims[id].fixed

\* every band of the simulation absorbs everything (alpha = 1)
FullyAbsorbing(p) == \A b \in BandSet(p) : Absorption(p, b) = 2

\* C13: with alpha = 1 in every band and the radiosity tail off, every arrival
\* has amplitude 1 and was recorded before its ray hit any wall.
C13_FullAbsorptionDirectOnly ==
    \A id \in SimIds :
        (FullyAbsorbing(sims[id].params) /\ ~sims[id].rrConfig.enabled)
        => \A b \in DOMAIN sims[id].arrivals :
               \A k \in 1..Len(sims[id].arrivals[b]) :
                   /\ sims[id].arrivals[b][k].amplitude = AmpOne
                   /\ sims[id].arrivals[b][k].bounce = 0

\* the wall hits after which every band amplitude is below the resolution of
\* the amplitudes (the epsilon of the model), for a positive absorption
RECURSIVE HitsToSilence(_, _, _)
HitsToSilence(p, amplitudes, n) ==
    IF \A b \in DOMAIN amplitudes : amplitudes[b] = 0 THEN n
    ELSE HitsToSilence(p, Attenuate(p, amplitudes), n + 1)

\* C14: in a closed room with the same positive absorption in every band no
\* ray makes more wall hits than it takes all its amplitudes to fall below
\* epsilon, whatever maxBounces is.
C14_EndsBelowEpsilon ==
    \A id \in SimIds :
        ( /\ GeometryReady(sims[id].world)
          /\ ~sims[id].world.roomMesh.open
          /\ BandSet(sims[id].params) # {}
          /\ \A b \in BandSet(sims[id].params) : Absorption(sims[id].params, b) = 1 )
        => sims[id].wallHits
              <= HitsToSilence(sims[id].params,
                               [b \in BandSet(sims[id].params) |-> AmpOne], 0)

\* C15: every synthesized arrival of a complete message has a time of at
\* most the maxTime the simulation used.
C15_LateWithinMaxTime ==
    \A k \in Events :
        outbox[k].type = "complete"
        => \A b \in DOMAIN outbox[k].arrivals :
               \A n \in 1..Len(outbox[k].arrivals[b]) :
                   outbox[k].arrivals[b][n].late
                   => outbox[k].arrivals[b][n].time <= outbox[k].rayRadiosity.rrConfig.maxTime

\* sample i of a buffer extended with zeros
ZeroExtended(buffer, i) == IF i <= Len(buffer) THEN buffer[i] ELSE 0

\* the sum of sample i of the buffers of the bands in S
RECURSIVE SumOfBands(_, _, _)
SumOfBands(irBuffers, S, i) ==
    IF S = {} THEN 0
    ELSE SumOfBands(irBuffers, S \ {CHOOSE b \in S : TRUE}, i)
         + ZeroExtended(irBuffers[CHOOSE b \in S : TRUE], i)

LongestBand(irBuffers) ==
    CHOOSE n \in 0..2 :
        /\ \A b \in DOMAIN irBuffers : Len(irBuffers[b]) <= n
        /\ n > 0 => \E b \in DOMAIN irBuffers : Len(irBuffers[b]) = n

\* the largest absolute value of a sample of the point-wise sum
PeakOfSum(irBuffers) ==
    CHOOSE m \in 0..6 :
        /\ \A i \in 1..LongestBand(irBuffers) :
               Abs(SumOfBands(irBuffers, DOMAIN irBuffers, i)) <= m
        /\ m > 0 => \E i \in 1..LongestBand(irBuffers) :
                        Abs(SumOfBands(irBuffers, DOMAIN irBuffers, i)) = m

\* C16: with some band buffer not empty, combineFrequencyBands returns a
\* buffer as long as the longest band buffer holding the point-wise sum of the
\* zero-extended band buffers, scaled, when the sum is not all zero, so that
\* its largest absolute sample is exactly the headroom 0.98.
C16_CombinedPeakIsHeadroom ==
    ( /\ audio.op = "combineFrequencyBands"
      /\ audio.audioContext
      /\ LongestBand(audio.irBuffers) > 0 )
    => /\ ~audio.result.null
       /\ Len(audio.result.data) = LongestBand(audio.irBuffers)
       /\ \A i \in 1..LongestBand(audio.irBuffers) :
              IF PeakOfSum(audio.irBuffers) = 0
              THEN audio.result.data[i] = 0
              ELSE /\ Abs(audio.result.data[i]) <= Headroom
                   /\ Abs(audio.result.data[i] * PeakOfSum(audio.irBuffers)
                          - SumOfBands(audio.irBuffers, DOMAIN audio.irBuffers, i) * Headroom)
                        < PeakOfSum(audio.irBuffers)
       /\ PeakOfSum(audio.irBuffers) > 0
          => \E i \in 1..LongestBand(audio.irBuffers) :
                 Abs(audio.result.data[i]) = Headroom

\* band buffers of different lengths whose sum peaks at a negative sample
C16_Witness ==
    /\ audio.op = "combineFrequencyBands"
    /\ audio.audioContext
    /\ DOMAIN audio.irBuffers = Bands
    /\ Len(audio.irBuffers[200]) # Len(audio.irBuffers[800])
    /\ ~audio.result.null
    /\ \E i \in 1..Len(audio.result.data) : audio.result.data[i] = -Headroom
    /\ \E i \in 1..Len(audio.result.data) : audio.result.data[i] \notin {0, Headroom, -Headroom}

\* the 16-bit signed little-endian value at byte offset pos of a file
ReadInt16(bytes, pos) ==
    IF bytes[pos + 1] + 256 * bytes[pos + 2] >= 32768
    THEN bytes[pos + 1] + 256 * bytes[pos + 2] - 65536
    ELSE bytes[pos + 1] + 256 * bytes[pos + 2]

\* round(clamp(x, -1, 1) * 32767), halves rounded up
RoundedSample(x) ==
    (2 * 32767 * (IF x > SampleOne THEN SampleOne ELSE IF x < -SampleOne THEN -SampleOne ELSE x)
        + SampleOne) \div (2 * SampleOne)

\* C17: the file audioBufferToWav writes has 44 bytes followed by one 16-bit
\* signed little-endian value per sample per channel, channels interleaved,
\* each within 1 of round(clamp(x, -1, 1) * 32767).
C17_WavSamplesWithinOneLsb ==
    audio.op = "audioBufferToWav"
    => /\ Len(audio.result) = 44 + 2 * audio.aBuffer.length * audio.aBuffer.numberOfChannels
       /\ \A k \in 1..Len(audio.result) : audio.result[k] \in 0..255
       /\ \A offset \in 0..(audio.aBuffer.length - 1) :
              \A c \in 1..audio.aBuffer.numberOfChannels :
                  Abs(ReadInt16(audio.result,
                                44 + 2 * (offset * audio.aBuffer.numberOfChannels + c - 1))
                      - RoundedSample(audio.aBuffer.channels[c][offset + 1])) <= 1

\* two channels of two samples, one sample below -1.0 and one written one
\* below its rounded value
C17_Witness ==
    /\ audio.op = "audioBufferToWav"
    /\ audio.aBuffer.numberOfChannels = 2
    /\ audio.aBuffer.length = 2
    /\ audio.aBuffer.channels[2][1] < -SampleOne
    /\ ReadInt16(audio.result, 44 + 2) = -32768
    /\ audio.aBuffer.channels[1][2] = -3
    /\ ReadInt16(audio.result, 44 + 4) = RoundedSample(-3) - 1

\* the constraints of the data model on a radiosity configuration, on the
\* grid of the model (1e-3 of energy is below its resolution)
DataModelRRConfig(c) ==
    /\ c.scatteringCoeff \in 0..2
    /\ c.histogramResolution >= 5
    /\ c.maxTime >= c.histogramResolution
    /\ c.hybridBounceThreshold \in 0..64
    /\ c.poissonDensity >= 1
    /\ c.diffuseGain >= 1
    /\ c.minEnergyThreshold = 0

\* C18: a simulation whose rrConfig came out of normalizeRayRadiosityConfig
\* uses, after the worker's clamping, a configuration that satisfies the
\* constraints of the data model.
C18_UsedConfigInDataModel ==
    \A id \in SimIds :
        ( /\ DOMAIN sims[id].params.rrConfig = DOMAIN MainRRDefaults
          /\ sims[id].params.rrConfig
                = normalizeRayRadiosityConfig(sims[id].params.rrConfig) )
        => DataModelRRConfig(sims[id].rrConfig)

\* the early arrivals of a list, in order
RECURSIVE EarlyOf(_)
EarlyOf(list) ==
    IF list = << >> THEN << >>
    ELSE IF Head(list).late THEN EarlyOf(Tail(list))
    ELSE <<Head(list)>> \o EarlyOf(Tail(list))

\* rays at the start of an iteration of the bounce loop
ProbeRays(bands) ==
    { [i |-> 0, x |-> x, dir |-> d, lane |-> l, z |-> z, totalDistance |-> 3,
       amplitudes |-> [b \in bands |-> AmpOne \div 2]] :
          x \in {-4, 0, 1, 4}, d \in {-1, 1}, l \in {0, 1}, z \in {0, 1} }

\* the state of a batch before a probe ray
ProbeAcc(sim) ==
    [arrivals |-> [b \in DOMAIN sim.arrivals |-> << >>], hist |-> sim.rrHistograms,
     count |-> 0, s |-> 0, wallHits |-> 0, thrown |-> FALSE]

\* iteration 0 of the bounce loop on ray r, in a loop of at most two iterations
Probe(sim, r) ==
    BounceLoop([sim EXCEPT !.params.maxBounces = 2], sim.world, 0, r, ProbeAcc(sim))

\* receiver reached first: a receiver hit exists, and there is no room hit or
\* t_r < t_m, and t_r > epsilon_hit
ReachedFirst(recv, room) ==
    /\ recv.hit
    /\ ~room.hit \/ recv.distance < room.distance
    /\ recv.distance > 0

\* what the iteration has to do to a probe ray
ProbeAsSpecified(sim, r, recv, room, out) ==
    IF ReachedFirst(recv, room)
    THEN out = [ProbeAcc(sim) EXCEPT !.arrivals =
                   [b \in DOMAIN sim.arrivals |->
                       << [time |-> (r.totalDistance + recv.distance)
                                       \div sim.params.speedOfSound,
                           amplitude |-> r.amplitudes[b],
                           late |-> FALSE, ray |-> 0, bounce |-> 0] >>]]
    ELSE \A b \in DOMAIN sim.arrivals :
             \A k \in 1..Len(out.arrivals[b]) : out.arrivals[b][k].bounce # 0

\* C19: an iteration of the bounce loop records the ray exactly when the
\* receiver is reached first and t_r > epsilon; it then appends to every band
\* one arrival at (totalDistance + t_r) / speedOfSound with the band's
\* amplitude and ends the ray.  Every ray has at most one early arrival per
\* band, and the bands hold the same early arrivals up to the amplitude.
C19_ReceiverReachedFirst ==
    \A id \in SimIds :
        GeometryReady(sims[id].world)
        => /\ \A r \in ProbeRays(DOMAIN sims[id].arrivals) :
                  ProbeAsSpecified(sims[id], r,
                      ReceiverHit(sims[id].world.emitterMesh, r.x, r.dir, r.lane, 0),
                      RoomHit(sims[id].world.roomMesh, r.x, r.dir, r.z),
                      Probe(sims[id], r))
           /\ \A b1, b2 \in DOMAIN sims[id].arrivals :
                  /\ Len(EarlyOf(sims[id].arrivals[b1])) = Len(EarlyOf(sims[id].arrivals[b2]))
                  /\ \A k \in 1..Len(EarlyOf(sims[id].arrivals[b1])) :
                         /\ EarlyOf(sims[id].arrivals[b1])[k].time
                               = EarlyOf(sims[id].arrivals[b2])[k].time
                         /\ EarlyOf(sims[id].arrivals[b1])[k].ray
                               = EarlyOf(sims[id].arrivals[b2])[k].ray
           /\ sims[id].fixed
              => \A b \in DOMAIN sims[id].arrivals :
                     \A k, m \in 1..Len(EarlyOf(sims[id].arrivals[b])) :
                         k # m => EarlyOf(sims[id].arrivals[b])[k].ray
                                     # EarlyOf(sims[id].arrivals[b])[m].ray

\* a finished simulation in which a ray reached the receiver after a wall hit
\* and another ray never reached it
C19_Witness ==
    \E id \in SimIds :
        /\ GeometryReady(sims[id].world)
        /\ sims[id].status = "complete"
        /\ \E k \in 1..Len(EarlyOf(sims[id].arrivals[200])) :
               EarlyOf(sims[id].arrivals[200])[k].bounce > 0
        /\ Len(EarlyOf(sims[id].arrivals[800])) \in 1..(sims[id].params.numRays - 1)

\* 1 * max(0, 1 - alpha)^n on the grid of the amplitudes, alpha in halves
RECURSIVE ReflectedAmplitude(_, _)
ReflectedAmplitude(alpha, n) ==
    IF n = 0 THEN AmpOne
    ELSE (ReflectedAmplitude(alpha, n - 1) * Max(0, 2 - alpha)) \div 2

\* C20: the amplitude recorded for band b of a ray that made n wall hits is
\* max(0, 1 - alpha[b])^n, a value in [0, 1].
C20_AmplitudeIsReflectionPower ==
    \A id \in SimIds :
        \A b \in DOMAIN sims[id].arrivals :
            \A k \in 1..Len(EarlyOf(sims[id].arrivals[b])) :
                /\ EarlyOf(sims[id].arrivals[b])[k].amplitude \in 0..AmpOne
                /\ EarlyOf(sims[id].arrivals[b])[k].amplitude
                      = ReflectedAmplitude(Absorption(sims[id].params, b),
                                           EarlyOf(sims[id].arrivals[b])[k].bounce)

\* wall hits: the bounce index, the point hit, the distance travelled so far
\* and the amplitudes after the hit
ProbeHits(bands) ==
    { [bounce |-> n, point |-> x, totalDistance |-> d,
       amplitudes |-> [b \in bands |-> IF b = 200 THEN a ELSE AmpOne]] :
          n \in {0, 2, 3}, x \in {-4, 4}, d \in {4, 9, 20}, a \in {0, 4} }

\* the histograms after the contribution of wall hit h
ProbeContribution(sim, h) ==
    Contribute(sim, sim.world, h.bounce, h.point, h.totalDistance, h.amplitudes,
               sim.rrHistograms, 0).hist

\* the distance from the point of a hit to the receiver, at least half its radius
ToReceiver(w, point) ==
    IF Abs(point - w.emitterPositionVec) >= Max(w.emitterRadius \div 2, 1)
    THEN Abs(point - w.emitterPositionVec)
    ELSE Max(w.emitterRadius \div 2, 1)

PulsesOfBin(pulses, i, binSize) ==
    {j \in 1..Len(pulses) : /\ pulses[j].time >= i * binSize
                            /\ pulses[j].time < (i + 1) * binSize}

\* the Poisson samples of mean lambda, over the states of the generator
PoissonSamples(lambda) == {samplePoisson(lambda, s).k : s \in 0..63}

\* C22: synthesizeRadiosityPulses gives, for every bin i with energy E_i above
\* minEnergy, k = max(1, Poisson sample of E_i * poissonDensity) >= 1 pulses,
\* the sample a non-negative integer, each pulse with absolute amplitude
\* sqrt(E_i / k) and time in [i*dt, (i+1)*dt), so that the squared amplitudes
\* of the bin sum to E_i up to the resolution of the amplitude; a bin with
\* E_i <= minEnergy gives no pulse.
C22_PulsesOfBins ==
    audio.op = "synthesizeRadiosityPulses"
    => /\ \A j \in 1..Len(audio.result) :
              \E i \in 0..(Len(audio.histogram) - 1) :
                  j \in PulsesOfBin(audio.result, i, audio.binSize)
       /\ \A i \in 0..(Len(audio.histogram) - 1) :
              \E k \in {Cardinality(PulsesOfBin(audio.result, i, audio.binSize))} :
                  IF audio.histogram[i + 1] <= audio.minEnergy
                  THEN k = 0
                  ELSE /\ k >= 1
                       /\ \A n \in PoissonSamples(audio.histogram[i + 1] * audio.poissonDensity) :
                              n >= 0
                       /\ \E n \in PoissonSamples(audio.histogram[i + 1] * audio.poissonDensity) :
                              k = Max(1, n)
                       /\ \A j \in PulsesOfBin(audio.result, i, audio.binSize) :
                              Abs(audio.result[j].amplitude)
                                  = ISqrt(audio.histogram[i + 1] \div k)
                       /\ \E a \in {ISqrt(audio.histogram[i + 1] \div k)} :
                              /\ k * a * a <= audio.histogram[i + 1]
                              /\ audio.histogram[i + 1] < k * (a + 1) * (a + 1)

\* a histogram with a bin below the threshold and a bin that gives several pulses
C22_Witness ==
    /\ audio.op = "synthesizeRadiosityPulses"
    /\ audio.histogram[1] <= audio.minEnergy
    /\ audio.histogram[2] > audio.minEnergy
    /\ Len(audio.result) >= 2
    /\ \E j \in 1..Len(audio.result) : audio.result[j].amplitude < 0

\* the arrival records of the delivered lists: the band and the index of each
Records(arrivals) ==
    UNION {{<< b, n >> : n \in 1..Len(arrivals[b])} : b \in DOMAIN arrivals}

LateRecords(arrivals) == {r \in Records(arrivals) : arrivals[r[1]][r[2]].late}

\* C23: in every complete message totalArrivals is the number of arrival
\* records of the delivered lists, and is the number of early arrivals plus
\* rayRadiosity.lateArrivalCount, the latter being the number of synthesized
\* pulses over all bands.
C23_TotalIsEarlyPlusLate ==
    \A k \in Events :
        outbox[k].type = "complete"
        => /\ outbox[k].totalArrivals = Cardinality(Records(outbox[k].arrivals))
           /\ outbox[k].rayRadiosity.lateArrivalCount
                  = Cardinality(LateRecords(outbox[k].arrivals))
           /\ outbox[k].totalArrivals
                  = Cardinality(Records(outbox[k].arrivals) \ LateRecords(outbox[k].arrivals))
                    + outbox[k].rayRadiosity.lateArrivalCount

\* a complete message with two bands, early arrivals and synthesized pulses
C23_Witness ==
    \E k \in Events :
        /\ outbox[k].type = "complete"
        /\ Cardinality(DOMAIN outbox[k].arrivals) >= 2
        /\ outbox[k].rayRadiosity.lateArrivalCount >= 2
        /\ Records(outbox[k].arrivals) \ LateRecords(outbox[k].arrivals) # {}

\* the sum of f(k) over the arrivals k in S
RECURSIVE SumOver(_, _, _, _)
SumOver(arrivals, sampleRate, S, n) ==
    IF S = {} THEN 0
    ELSE LET k == CHOOSE x \in S : TRUE
             x == arrivals[k].time * sampleRate
             i == x \div TicksPerSecond
             f == x % TicksPerSecond
         IN  (IF i = n THEN arrivals[k].amplitude * (TicksPerSecond - f) ELSE 0)
             + (IF i + 1 = n THEN arrivals[k].amplitude * f ELSE 0)
             + SumOver(arrivals, sampleRate, S \ {k}, n)

\* sample n before the safety normalization, as specified: a*(1-f) from
\* every arrival with i = n and a*f from every arrival with i + 1 = n
RawSample(n) == SumOver(audio.arrivals, audio.sampleRate, 1..Len(audio.arrivals), n)

RawBuffer == [m \in 1..audio.result.length |-> RawSample(m - 1)]

RECURSIVE SumOfSamples(_, _)
SumOfSamples(data, i) == IF i > Len(data) THEN 0 ELSE data[i] + SumOfSamples(data, i + 1)

RECURSIVE SumOfAmplitudes(_, _)
SumOfAmplitudes(arrivals, k) ==
    IF k > Len(arrivals) THEN 0 ELSE arrivals[k].amplitude + SumOfAmplitudes(arrivals, k + 1)

\* the safety normalization did not act on the result: the raw peak is at most 1.0
Unscaled == MaxSample(RawBuffer, 1) <= IrOne

\* C24: for a non-empty arrival list the buffer of createIRAudioBuffer has
\* ceil(max(tau_max + 0.5, 1) * f_s) samples; every arrival (tau, a), with
\* x = tau * f_s, i = floor(x), f = x - i, has i and i + 1 inside the buffer
\* and adds a*(1-f) to sample i and a*f to sample i + 1, so that before the
\* safety normalization the samples sum to the sum of the amplitudes.
C24_ArrivalsSplitOverTwoSamples ==
    (audio.op = "createIRAudioBuffer" /\ audio.arrivals # << >>)
    => /\ audio.result.length
             = CeilDiv(Max(MaxArrivalTime(audio.arrivals, 1) + TicksPerSecond \div 2,
                           TicksPerSecond) * audio.sampleRate, TicksPerSecond)
       /\ Len(audio.result.data) = audio.result.length
       /\ \A k \in 1..Len(audio.arrivals) :
              (audio.arrivals[k].time * audio.sampleRate) \div TicksPerSecond + 1
                  < audio.result.length
       /\ SumOfSamples(RawBuffer, 1) = TicksPerSecond * SumOfAmplitudes(audio.arrivals, 1)
       /\ Unscaled => audio.result.data = RawBuffer

\* an arrival a quarter of a sample after sample 1, alone in the list: three
\* quarters of its amplitude in sample 1, one quarter in sample 2
C24_Witness ==
    /\ audio.op = "createIRAudioBuffer"
    /\ Len(audio.arrivals) = 1
    /\ audio.arrivals[1].time * audio.sampleRate = TicksPerSecond + TicksPerSecond \div 4
    /\ audio.result.data[2] * 4 = 3 * audio.arrivals[1].amplitude * TicksPerSecond
    /\ audio.result.data[3] * 4 = audio.arrivals[1].amplitude * TicksPerSecond

\* C25: the peak absolute sample of the buffer createIRAudioBuffer returns is
\* at most 1.0; the buffer is the accumulated one divided by its peak when
\* that peak exceeds 1.0, and otherwise exactly the accumulated one.
C25_PeakAtMostOne ==
    audio.op = "createIRAudioBuffer"
    => /\ MaxSample(audio.result.data, 1) <= IrOne
       /\ IF audio.arrivals = << >> THEN audio.result.data = << 0 >>
          ELSE IF MaxSample(RawBuffer, 1) > IrOne
          THEN /\ MaxSample(audio.result.data, 1) = IrOne
               /\ \A m \in 1..audio.result.length :
                      audio.result.data[m]
                          = Quot(RawBuffer[m] * IrOne, MaxSample(RawBuffer, 1))
          ELSE audio.result.data = RawBuffer

\* two arrivals on the same sample with a raw peak of 1.5, divided to 1.0
C25_Witness ==
    /\ audio.op = "createIRAudioBuffer"
    /\ Len(audio.arrivals) = 2
    /\ MaxSample(RawBuffer, 1) > IrOne
    /\ MaxSample(audio.result.data, 1) = IrOne
    /\ \E m \in 1..audio.result.length :
           audio.result.data[m] # 0 /\ Abs(audio.result.data[m]) < IrOne

\* no simulation is in progress: no batch is pending
Idle == timers = << >>

\* C26: whenever no simulation is in progress in the worker (after a
\* complete, after a simulate that failed with an error, after any
\* interleaving of simulate commands) Math.random is the function it was
\* before the first simulate.
C26_RandomRestoredWhenIdle == Idle => mathRandom = 0

\* C27: on the main thread no simulation is started, on the worker or on the
\* main thread, while state.isSimulating is still true from an earlier one,
\* and no simulate message is posted while state.workerGeometryReady is false.
C27_OneSimulationInFlight ==
    \A k \in 1..Len(main.started) :
        /\ ~main.started[k].isSimulating
        /\ main.started[k].kind = "worker" => main.started[k].workerGeometryReady

\* wall hits whose time to the receiver is around the maxTime of the simulation
BinProbeHits(bands) ==
    { [bounce |-> 3, point |-> x, totalDistance |-> d,
       amplitudes |-> [b \in bands |-> AmpOne]] : x \in {-4, 4}, d \in 4..11 }

\* the time from the hit to the receiver and the bin index it gives
TimeToReceiver(sim, h) ==
    (h.totalDistance + ToReceiver(sim.world, h.point)) \div sim.params.speedOfSound

\* the contribution of hit h wrote to a histogram of the simulation
Wrote(sim, h) ==
    Contribute(sim, sim.world, h.bounce, h.point, h.totalDistance, h.amplitudes,
               sim.rrHistograms, 0).count > 0

\* C28: every write to an energy histogram uses a bin index in
\* 0 .. histogramBins-1, histogramBins being ceil(maxTime / histogramResolution)
\* and the length of every histogram, also when the time to the receiver is
\* exactly maxTime and maxTime is a multiple of the resolution.
C28_BinIndexInRange ==
    \A id \in SimIds :
        /\ sims[id].rrConfig.enabled
           => /\ sims[id].histogramBins
                    = CeilDiv(sims[id].rrConfig.maxTime, sims[id].rrConfig.histogramResolution)
              /\ \A b \in DOMAIN sims[id].rrHistograms :
                     Len(sims[id].rrHistograms[b]) = sims[id].histogramBins
        /\ GeometryReady(sims[id].world)
           => \A h \in BinProbeHits(DOMAIN sims[id].arrivals) :
                  Wrote(sims[id], h)
                  => /\ TimeToReceiver(sims[id], h) \div sims[id].rrConfig.histogramResolution >= 0
                     /\ TimeToReceiver(sims[id], h) \div sims[id].rrConfig.histogramResolution
                            <= sims[id].histogramBins - 1

\* a simulation whose maxTime is a multiple of the resolution, a hit whose
\* time to the receiver is exactly maxTime and writes nothing, and a hit that
\* writes to the last bin
C28_Witness ==
    \E id \in SimIds :
        /\ sims[id].rrConfig.enabled
        /\ GeometryReady(sims[id].world)
        /\ sims[id].rrConfig.maxTime % sims[id].rrConfig.histogramResolution = 0
        /\ \E h \in BinProbeHits(DOMAIN sims[id].arrivals) :
               /\ TimeToReceiver(sims[id], h) = sims[id].rrConfig.maxTime
               /\ ~Wrote(sims[id], h)
        /\ \E h \in BinProbeHits(DOMAIN sims[id].arrivals) :
               /\ TimeToReceiver(sims[id], h) \div sims[id].rrConfig.histogramResolution
                      = sims[id].histogramBins - 1
               /\ Wrote(sims[id], h)

\* the step posts one message, of the given type
Posts(type) ==
    /\ Len(outbox') = Len(outbox) + 1
    /\ outbox'[Len(outbox')].type = type

\* C29: whenever the worker replies geometrySet, a room mesh with its BVH
\* and a receiver mesh exist in the worker and the stored receiver radius and
\* position are those of the receiver mesh the command built.
C29_GeometrySetMeansMeshes ==
    [][Posts("geometrySet")
       => /\ roomMesh'.present /\ roomMesh'.boundsTree
          /\ emitterMesh'.present /\ emitterMesh'.boundsTree
          /\ emitterRadius' = emitterMesh'.radius
          /\ emitterPosition' = emitterMesh'.pos]_vars

\* the batch simulation id ran in this step took it from `before` processed
\* rays to sims'[id].processedRays as specified
Advanced(id, before) ==
    /\ sims'[id].processedRays
           = before + Min(sims'[id].params.batchSize, sims'[id].params.numRays - before)
    /\ sims'[id].processedRays >= before
    /\ sims'[id].processedRays <= sims'[id].params.numRays
    /\ sims'[id].wallHits <= sims'[id].params.maxBounces
    /\ sims'[id].status = "running" => sims'[id].processedRays > before

\* C30: each batch of a simulation advances processedRays by
\* min(batchSize, numRays - processedRays); processedRays never decreases and
\* never exceeds numRays, a bounce loop runs at most maxBounces iterations,
\* and a batch that does not complete the simulation has traced at least one
\* ray, so that every simulation that is not terminated reaches complete.
C30_BatchesAdvanceToComplete ==
    [][/\ \A id \in SimIds :
              (sims'[id].batches > sims[id].batches /\ sims'[id].status # "failed")
              => Advanced(id, sims[id].processedRays)
       /\ (Len(sims') > Len(sims) /\ sims'[Len(sims')].status # "failed")
              => Advanced(Len(sims'), 0)]_vars

====
